---- MODULE Spec2Model ----
(***************************************************************************)
(* Model of the demo-sync orchestrator's smart merge                       *)
(* (CopilotSyncOrchestrator in src/unnamed/part_000).                      *)
(*                                                                         *)
(* A character is a one-character string, a line is a sequence of          *)
(* characters and a file's text is a sequence of characters in which NL    *)
(* separates the lines.  Line and block positions are 0-indexed as in the  *)
(* JavaScript source; At(lines, i) reads lines[i].                         *)
(***************************************************************************)
EXTENDS Integers, Sequences, FiniteSets, TLC

VARIABLES
    config,          \* this.config.protected_blocks
    mainFile,        \* text of the file under MAIN_APP_PATH
    demoFile,        \* text of the file under DEMO_APP_PATH, NoFile if absent
    pc,              \* position inside smartMergeFile
    demoContent,     \* smartMergeFile: the demo text read, main's if demo has no file
    demoLines,       \* intelligentMerge: demoContent.split('\n')
    protectedBlocks, \* smartMergeFile: extractProtectedBlocks(demoContent)
    k,               \* number of blocks the for-of loop has processed
    result,          \* intelligentMerge: the working document
    warnings,        \* intelligentMerge: warnings
    contextBefore,   \* locals of the last loop iteration
    contextAfter,
    insertPosition,
    replaceEnd,
    resultBefore,    \* the working document as the last iteration found it
    changes,         \* this.changes (preserved, conflicts)
    syncLog,         \* this.syncLog
    validationResults, \* this.validationResults, Undefined until validateSync has run
    validation,      \* what the orchestrator's validateProtectedBlocks returned
    errors,          \* SyncValidator: this.errors
    stepsDone,       \* sync: the steps that have completed, in order
    thrown,          \* sync: the step whose error the catch received, NoStep if none
    exitCode,        \* the code process.exit was called with, Running before
    resultsFile,     \* sync-results.json, Undefined until outputResults writes it
    invoked,         \* the calls of copyFile, smartMergeFile and deleteFile
    firstRun         \* content and warnings of the merge run before the current one

vars == <<config, mainFile, demoFile, pc, demoContent, demoLines, protectedBlocks, k, result,
          warnings, contextBefore, contextAfter, insertPosition, replaceEnd,
          resultBefore, changes, syncLog, validationResults, validation, errors,
          stepsDone, thrown, exitCode, resultsFile, invoked, firstRun>>

\* the state of the sync pipeline around the merge of a file
syncVars == <<stepsDone, thrown, exitCode, resultsFile, invoked>>

(***************************************************************************)
(* Strings                                                                 *)
(***************************************************************************)
NL == "\n"
SP == " "
NoFile == "ENOENT"
Undefined == [undefined |-> TRUE]
NoStep == "none"
Running == "running"
Null == [null |-> TRUE]
File == "src/App.js"

Min(a, b) == IF a < b THEN a ELSE b
Max(a, b) == IF a > b THEN a ELSE b

\* lines[i] for a 0-indexed i
At(lines, i) == lines[i + 1]

\* Array.prototype.slice(from, to) on a sequence, 0-indexed, to exclusive
Slice(s, from, to) == SubSeq(s, from + 1, to)

\* String.prototype.includes
includes(s, sub) ==
    \E i \in 0..(Len(s) - Len(sub)) : Slice(s, i, i + Len(sub)) = sub

\* String.prototype.trim
RECURSIVE trimStart(_)
trimStart(s) ==
    IF s # <<>> /\ Head(s) = SP THEN trimStart(Tail(s)) ELSE s

RECURSIVE trimEnd(_)
trimEnd(s) ==
    IF s # <<>> /\ s[Len(s)] = SP THEN trimEnd(SubSeq(s, 1, Len(s) - 1)) ELSE s

trim(s) == trimEnd(trimStart(s))

\* String.prototype.split('\n')
RECURSIVE splitFrom(_, _, _, _)
splitFrom(text, i, cur, acc) ==
    IF i > Len(text) THEN Append(acc, cur)
    ELSE IF text[i] = NL THEN splitFrom(text, i + 1, <<>>, Append(acc, cur))
    ELSE splitFrom(text, i + 1, Append(cur, text[i]), acc)

split(text) == splitFrom(text, 1, <<>>, <<>>)

\* Array.prototype.join('\n')
RECURSIVE join(_)
join(lines) ==
    IF lines = <<>> THEN <<>>
    ELSE IF Len(lines) = 1 THEN lines[1]
    ELSE lines[1] \o <<NL>> \o join(Tail(lines))

\* Array.prototype.some over a marker list
someIncludes(markers, line) ==
    \E m \in 1..Len(markers) : includes(line, markers[m])

\* Array.prototype.splice(start, deleteCount, ...items)
splice(arr, start, deleteCount, items) ==
    LET s == Min(Max(start, 0), Len(arr))
        d == Min(Max(deleteCount, 0), Len(arr) - s)
    IN  Slice(arr, 0, s) \o items \o Slice(arr, s + d, Len(arr))

(***************************************************************************)
(* extractProtectedBlocks                                                  *)
(***************************************************************************)
\* a variant whose content leaves out the closing line
RECURSIVE extractFrom_DropsEndLine(_, _, _, _, _, _)
extractFrom_DropsEndLine(lines, i, inBlock, blockStart, currentBlock, blocks) ==
    IF i >= Len(lines) THEN blocks
    ELSE LET line == At(lines, i) IN
        IF ~inBlock /\ someIncludes(config.start_markers, line)
        THEN extractFrom_DropsEndLine(lines, i + 1, TRUE, i, <<line>>, blocks)
        ELSE IF inBlock
        THEN IF someIncludes(config.end_markers, line)
             THEN extractFrom_DropsEndLine(lines, i + 1, FALSE, blockStart, <<>>,
                      Append(blocks, [start |-> blockStart, end |-> i,
                                      content |-> join(currentBlock)]))
             ELSE extractFrom_DropsEndLine(lines, i + 1, TRUE, blockStart,
                      Append(currentBlock, line), blocks)
        ELSE extractFrom_DropsEndLine(lines, i + 1, FALSE, blockStart, currentBlock, blocks)

\* a variant in which a start marker inside an open block starts the block anew
RECURSIVE extractFrom_Restart(_, _, _, _, _, _)
extractFrom_Restart(lines, i, inBlock, blockStart, currentBlock, blocks) ==
    IF i >= Len(lines) THEN blocks
    ELSE LET line == At(lines, i) IN
        IF someIncludes(config.start_markers, line)
        THEN extractFrom_Restart(lines, i + 1, TRUE, i, <<line>>, blocks)
        ELSE IF inBlock
        THEN IF someIncludes(config.end_markers, line)
             THEN extractFrom_Restart(lines, i + 1, FALSE, blockStart, <<>>,
                      Append(blocks, [start |-> blockStart, end |-> i,
                                      content |-> join(Append(currentBlock, line))]))
             ELSE extractFrom_Restart(lines, i + 1, TRUE, blockStart,
                      Append(currentBlock, line), blocks)
        ELSE extractFrom_Restart(lines, i + 1, FALSE, blockStart, currentBlock, blocks)

\* a variant that emits the block still open at the end of the scan
RECURSIVE extractFrom_EmitsPartial(_, _, _, _, _, _)
extractFrom_EmitsPartial(lines, i, inBlock, blockStart, currentBlock, blocks) ==
    IF i >= Len(lines)
    THEN IF inBlock
         THEN Append(blocks, [start |-> blockStart, end |-> Len(lines) - 1,
                              content |-> join(currentBlock)])
         ELSE blocks
    ELSE LET line == At(lines, i) IN
        IF ~inBlock /\ someIncludes(config.start_markers, line)
        THEN extractFrom_EmitsPartial(lines, i + 1, TRUE, i, <<line>>, blocks)
        ELSE IF inBlock
        THEN IF someIncludes(config.end_markers, line)
             THEN extractFrom_EmitsPartial(lines, i + 1, FALSE, blockStart, <<>>,
                      Append(blocks, [start |-> blockStart, end |-> i,
                                      content |-> join(Append(currentBlock, line))]))
             ELSE extractFrom_EmitsPartial(lines, i + 1, TRUE, blockStart,
                      Append(currentBlock, line), blocks)
        ELSE extractFrom_EmitsPartial(lines, i + 1, FALSE, blockStart, currentBlock, blocks)

RECURSIVE extractFrom(_, _, _, _, _, _)
extractFrom(lines, i, inBlock, blockStart, currentBlock, blocks) ==
    IF i >= Len(lines) THEN blocks
    ELSE LET line == At(lines, i) IN
        IF ~inBlock /\ someIncludes(config.start_markers, line)
        THEN extractFrom(lines, i + 1, TRUE, i, <<line>>, blocks)
        ELSE IF inBlock
        THEN IF someIncludes(config.end_markers, line)
             THEN extractFrom(lines, i + 1, FALSE, blockStart, <<>>,
                      Append(blocks, [start |-> blockStart, end |-> i,
                                      content |-> join(Append(currentBlock, line))]))
             ELSE extractFrom(lines, i + 1, TRUE, blockStart,
                      Append(currentBlock, line), blocks)
        ELSE extractFrom(lines, i + 1, FALSE, blockStart, currentBlock, blocks)

extractProtectedBlocks(content) ==
    extractFrom(split(content), 0, FALSE, -1, <<>>, <<>>)

(***************************************************************************)
(* Context sampling                                                        *)
(***************************************************************************)
ContextCount == 3

\* a variant that forgets the end markers
isMarkerLine_StartOnly(line) ==
    someIncludes(config.start_markers, line)

isMarkerLine(line) ==
    someIncludes(config.start_markers \o config.end_markers, line)

RECURSIVE contextLoop(_, _, _, _)
contextLoop(lines, i, stop, contextLines) ==
    IF i >= stop THEN contextLines
    ELSE LET line == trim(At(lines, i)) IN
         IF line # <<>> /\ ~isMarkerLine(line)
         THEN contextLoop(lines, i + 1, stop, Append(contextLines, line))
         ELSE contextLoop(lines, i + 1, stop, contextLines)

getContextBefore(lines, position, count) ==
    contextLoop(lines, Max(0, position - count), position, <<>>)

getContextAfter(lines, position, count) ==
    contextLoop(lines, position + 1, Min(Len(lines), position + count + 1), <<>>)

(***************************************************************************)
(* Anchor search                                                           *)
(***************************************************************************)
LookAhead == 20

RECURSIVE matchLoop(_, _, _, _, _)
matchLoop(lines, lineIdx, context, contextIdx, skipEmpty) ==
    IF contextIdx < Len(context) /\ lineIdx < Len(lines)
    THEN LET line == trim(At(lines, lineIdx)) IN
         IF skipEmpty /\ line = <<>>
         THEN matchLoop(lines, lineIdx + 1, context, contextIdx, skipEmpty)
         ELSE IF line = At(context, contextIdx)
         THEN matchLoop(lines, lineIdx + 1, context, contextIdx + 1, skipEmpty)
         ELSE IF includes(line, At(context, contextIdx))
                 \/ includes(At(context, contextIdx), line)
         THEN matchLoop(lines, lineIdx + 1, context, contextIdx + 1, skipEmpty)
         ELSE FALSE
    ELSE contextIdx = Len(context)

matchesContext(lines, startPos, context, skipEmpty) ==
    matchLoop(lines, startPos, context, 0, skipEmpty)

RECURSIVE findInsertFrom(_, _, _)
findInsertFrom(lines, i, ctxBefore) ==
    IF i >= Len(lines) THEN -1
    ELSE IF matchesContext(lines, i, ctxBefore, TRUE)
            /\ i + Len(ctxBefore) < Len(lines)
    THEN i + Len(ctxBefore)
    ELSE findInsertFrom(lines, i + 1, ctxBefore)

\* a variant that finds no position for an empty before-context
findInsertPosition_NeedsContext(lines, ctxBefore, ctxAfter) ==
    IF ctxBefore = <<>> THEN -1 ELSE findInsertFrom(lines, 0, ctxBefore)

findInsertPosition(lines, ctxBefore, ctxAfter) ==
    findInsertFrom(lines, 0, ctxBefore)

RECURSIVE findAfterFrom(_, _, _, _)
findAfterFrom(lines, i, stop, ctxAfter) ==
    IF i >= stop THEN -1
    ELSE IF matchesContext(lines, i, ctxAfter, FALSE) THEN i
    ELSE findAfterFrom(lines, i + 1, stop, ctxAfter)

\* variants whose lookahead is one line short, one line long
findContextAfterPosition_Short(lines, ctxAfter, startFrom) ==
    findAfterFrom(lines, startFrom, Min(Len(lines), startFrom + LookAhead - 1), ctxAfter)

findContextAfterPosition_Long(lines, ctxAfter, startFrom) ==
    findAfterFrom(lines, startFrom, Min(Len(lines), startFrom + LookAhead + 1), ctxAfter)

findContextAfterPosition(lines, ctxAfter, startFrom) ==
    findAfterFrom(lines, startFrom, Min(Len(lines), startFrom + LookAhead), ctxAfter)

(***************************************************************************)
(* intelligentMerge: one iteration of the for-of loop over protectedBlocks *)
(***************************************************************************)
PreviewLen == 100

blockLinesOf(block) == split(block.content)

contextMissingWarning(block) ==
    [type    |-> "protected_block_context_missing",
     message |-> <<"Protected block at lines ", block.start, "-", block.end,
                   " has no matching context in main-app. Main may have removed this section.">>,
     block   |-> Slice(block.content, 0, Min(PreviewLen, Len(block.content)))
                   \o <<".", ".", ".">>]

WarningComment == <<"// WARNING: This block was preserved but context not found in main-app">>

\* a variant that takes the span's end as inclusive
spliceReplace_Inclusive(lines, block, replaceStart, replEnd) ==
    splice(lines, replaceStart, replEnd - replaceStart + 1, blockLinesOf(block))

\* lines 432-434: the section between the two contexts is replaced
spliceReplace(lines, block, replaceStart, replEnd) ==
    splice(lines, replaceStart, replEnd - replaceStart, blockLinesOf(block))

\* lines 435-437: the block is inserted, nothing is removed
spliceInsert(lines, block, insertPos) ==
    splice(lines, insertPos, 0, blockLinesOf(block))

\* a variant that leaves out the empty line
appendFallback_NoBlank(lines, block) ==
    (lines \o <<WarningComment>>) \o split(block.content)

\* lines 447-450: the block is appended behind an empty line and a comment
appendFallback(lines, block) ==
    (lines \o << <<>> >> \o <<WarningComment>>) \o split(block.content)

\* a variant that searches main's lines as they were read
searchDocument_Source == split(mainFile)

\* line 422: the document the anchor search of the iteration reads
searchDocument == result

(***************************************************************************)
(* Inputs                                                                  *)
(***************************************************************************)
MaxDemoLen == 4      \* lines of a demo file
MaxMainLen == 2      \* lines of a main file
MaxPaddedLen == 5    \* lines of a demo file whose first block main has replaced
PadNear == 1         \* main puts 0..PadNear lines in the place of that block, or
                     \* a number of lines within PadNear of the lookahead
MaxWsLen == 4        \* lines of a demo file with blank and indented lines
MaxWsMainLen == 2    \* lines of a main file with blank and partial lines
MaxFreshLen == 3     \* lines of a main file that has no demo counterpart
MaxBody == 1         \* lines between the markers of a block, two-block files
MaxGap == 1          \* lines before, between and after the blocks, two-block files

SeqsUpTo(S, n) == UNION {[1..m -> S] : m \in 1..n}
SeqsFromEmpty(S, n) == UNION {[1..m -> S] : m \in 0..n}

\* the texts of the files whose lines are 1..n lines of S
Texts(S, n) == {join(lines) : lines \in SeqsUpTo(S, n)}

DefaultConfig ==
    [start_markers |-> << <<"S">> >>, end_markers |-> << <<"E">> >>,
     validate_protected_blocks |-> TRUE]
MultiConfig ==
    [start_markers |-> << <<"S">>, <<"T">> >>, end_markers |-> << <<"E">>, <<"F">> >>,
     validate_protected_blocks |-> TRUE]

CoreDemoLines == {<<"a">>, <<"b">>, <<"S">>, <<"E">>}
CoreMainLines == {<<"a">>, <<"b">>}
PadLine == <<"c">>
WsDemoLines == {<<SP, "a">>, <<>>, <<"a", "b">>, <<"S">>, <<"E">>}
WsMainLines == {<<>>, <<"a", "b">>}
BodyLines == {<<"a">>}
PreLines == {<<"a">>}
MidLines == {<<"a">>, <<"b">>}
PostLines == {<<"b">>}
FreshLines == {<<"a">>, <<"S">>, <<"E">>, <<"T">>, <<SP, "F">>}

padding(n) == [i \in 1..n |-> PadLine]
PadCounts == (0..PadNear) \cup ((LookAhead - PadNear)..(LookAhead + PadNear))

\* main's version of a demo file: the first block's lines replaced by n lines
replaceFirstBlock(lines, n) ==
    LET bs == extractFrom(lines, 0, FALSE, -1, <<>>, <<>>) IN
    IF bs = <<>> THEN lines
    ELSE Slice(lines, 0, bs[1].start) \o padding(n)
             \o Slice(lines, bs[1].end + 1, Len(lines))

InitRest ==
    /\ pc = "start"
    /\ demoContent = <<>>
    /\ demoLines = <<>>
    /\ protectedBlocks = <<>>
    /\ k = 0
    /\ result = <<>>
    /\ warnings = <<>>
    /\ contextBefore = <<>>
    /\ contextAfter = <<>>
    /\ insertPosition = -1
    /\ replaceEnd = -1
    /\ resultBefore = <<>>
    /\ changes = [preserved |-> <<>>, conflicts |-> <<>>]
    /\ syncLog = <<>>
    /\ validationResults = Undefined
    /\ validation = Undefined
    /\ errors = <<>>
    /\ stepsDone = <<>>
    /\ thrown = NoStep
    /\ exitCode = Running
    /\ resultsFile = Undefined
    /\ invoked = <<>>
    /\ firstRun = Undefined

\* demo and main files over the core lines
InitCore ==
    /\ config = DefaultConfig
    /\ demoFile \in Texts(CoreDemoLines, MaxDemoLen)
    /\ mainFile \in Texts(CoreMainLines, MaxMainLen)
    /\ InitRest

\* main is the demo file with its first block replaced by a few lines, or by
\* about as many as the lookahead
InitPadded ==
    /\ config = DefaultConfig
    /\ \E d \in SeqsUpTo(CoreDemoLines, MaxPaddedLen), n \in PadCounts :
          /\ extractFrom(d, 0, FALSE, -1, <<>>, <<>>) # <<>>
          /\ demoFile = join(d)
          /\ mainFile = join(replaceFirstBlock(d, n))
    /\ InitRest

\* blank, indented and partially matching lines around at least one block
InitWhitespace ==
    /\ config = DefaultConfig
    /\ \E d \in SeqsUpTo(WsDemoLines, MaxWsLen) :
          /\ extractFrom(d, 0, FALSE, -1, <<>>, <<>>) # <<>>
          /\ demoFile = join(d)
    /\ mainFile \in Texts(WsMainLines, MaxWsMainLen)
    /\ InitRest

\* the file is new in demo-app; either marker configuration
InitFresh ==
    /\ config \in {DefaultConfig, MultiConfig}
    /\ demoFile = NoFile
    /\ mainFile \in Texts(FreshLines, MaxFreshLen)
    /\ InitRest

\* a demo file with two closed blocks, around and in them lines main may hold
InitTwoBlocks ==
    /\ config = DefaultConfig
    /\ \E pre \in SeqsFromEmpty(PreLines, MaxGap), mid \in SeqsFromEmpty(MidLines, MaxGap),
          post \in SeqsFromEmpty(PostLines, MaxGap),
          b1 \in SeqsFromEmpty(BodyLines, MaxBody), b2 \in SeqsFromEmpty(BodyLines, MaxBody) :
          demoFile = join(pre \o << <<"S">> >> \o b1 \o << <<"E">> >> \o mid
                              \o << <<"S">> >> \o b2 \o << <<"E">> >> \o post)
    /\ mainFile \in Texts(CoreMainLines, MaxMainLen)
    /\ InitRest

Init == InitCore \/ InitPadded \/ InitWhitespace \/ InitFresh \/ InitTwoBlocks

(***************************************************************************)
(* smartMergeFile                                                          *)
(***************************************************************************)
\* lines 324-325: the two texts smartMergeFile reads
mainContent == mainFile
readDemoContent == IF demoFile # NoFile THEN demoFile ELSE mainContent

\* a variant without the early return: the file is recorded as preserved too
SmartMergeNoBlocks_FallThrough ==
    /\ pc = "start"
    /\ extractProtectedBlocks(readDemoContent) = <<>>
    /\ demoContent' = readDemoContent
    /\ protectedBlocks' = extractProtectedBlocks(readDemoContent)
    /\ demoFile' = mainFile
    /\ syncLog' = Append(syncLog, [action |-> "smart_merge_no_blocks", file |-> File])
    /\ changes' = [changes EXCEPT !.preserved = Append(@, [file |-> File, blocks |-> 0])]
    /\ pc' = "done"
    /\ UNCHANGED <<config, mainFile, demoLines, k, result, warnings,
                   contextBefore, contextAfter, insertPosition, replaceEnd, resultBefore,
                   validationResults, validation, errors,
                   syncVars, firstRun>>

\* lines 330-336: no protected blocks, the main file is copied
SmartMergeNoBlocks ==
    /\ pc = "start"
    /\ extractProtectedBlocks(readDemoContent) = <<>>
    /\ demoContent' = readDemoContent
    /\ protectedBlocks' = extractProtectedBlocks(readDemoContent)
    /\ demoFile' = mainFile
    /\ syncLog' = Append(syncLog, [action |-> "smart_merge_no_blocks", file |-> File])
    /\ pc' = "done"
    /\ UNCHANGED <<config, mainFile, demoLines, k, result, warnings,
                   contextBefore, contextAfter, insertPosition, replaceEnd,
                   resultBefore, changes, validationResults, validation, errors,
                   syncVars, firstRun>>

\* lines 338-340 and 407-413: intelligentMerge is entered
BeginMerge ==
    /\ pc = "start"
    /\ extractProtectedBlocks(readDemoContent) # <<>>
    /\ demoContent' = readDemoContent
    /\ protectedBlocks' = extractProtectedBlocks(readDemoContent)
    /\ demoLines' = split(readDemoContent)
    /\ result' = split(mainContent)
    /\ warnings' = <<>>
    /\ k' = 0
    /\ pc' = "merge"
    /\ UNCHANGED <<config, mainFile, demoFile, contextBefore, contextAfter,
                   insertPosition, replaceEnd, resultBefore, changes, syncLog,
                   validationResults, validation, errors,
                   syncVars, firstRun>>

\* a variant that throws when no anchor is found: control leaves the loop for
\* the catch of sync and nothing is written
MergeBlock_ThrowsOnMissing ==
    /\ pc = "merge"
    /\ k < Len(protectedBlocks)
    /\ LET block == At(protectedBlocks, k)
           ctxB == getContextBefore(demoLines, block.start, ContextCount)
           ctxA == getContextAfter(demoLines, block.end, ContextCount)
           pos == findInsertPosition(searchDocument, ctxB, ctxA)
           rend == IF pos # -1 THEN findContextAfterPosition(result, ctxA, pos) ELSE -1
       IN  /\ contextBefore' = ctxB
           /\ contextAfter' = ctxA
           /\ insertPosition' = pos
           /\ replaceEnd' = rend
           /\ resultBefore' = result
           /\ IF pos # -1
              THEN /\ result' = IF rend # -1
                                THEN spliceReplace(result, block, pos, rend)
                                ELSE spliceInsert(result, block, pos)
                   /\ k' = k + 1
                   /\ pc' = pc
              ELSE /\ result' = result
                   /\ k' = k
                   /\ pc' = "failed"
           /\ warnings' = warnings
    /\ UNCHANGED <<config, mainFile, demoFile, demoContent, demoLines,
                   protectedBlocks, changes, syncLog, validationResults, validation, errors,
                   syncVars, firstRun>>

\* lines 416-452: the loop body for block number k (0-indexed)
MergeBlock ==
    /\ pc = "merge"
    /\ k < Len(protectedBlocks)
    /\ LET block == At(protectedBlocks, k)
           ctxB == getContextBefore(demoLines, block.start, ContextCount)
           ctxA == getContextAfter(demoLines, block.end, ContextCount)
           pos == findInsertPosition(searchDocument, ctxB, ctxA)
           rend == IF pos # -1 THEN findContextAfterPosition(result, ctxA, pos) ELSE -1
       IN  /\ contextBefore' = ctxB
           /\ contextAfter' = ctxA
           /\ insertPosition' = pos
           /\ replaceEnd' = rend
           /\ resultBefore' = result
           /\ IF pos # -1
              THEN /\ result' = IF rend # -1
                                THEN spliceReplace(result, block, pos, rend)
                                ELSE spliceInsert(result, block, pos)
                   /\ warnings' = warnings
              ELSE /\ result' = appendFallback(result, block)
                   /\ warnings' = Append(warnings, contextMissingWarning(block))
    /\ k' = k + 1
    /\ UNCHANGED <<config, mainFile, demoFile, pc, demoContent, demoLines,
                   protectedBlocks, changes, syncLog, validationResults, validation, errors,
                   syncVars, firstRun>>

\* a variant that records no conflict
FinishMerge_NoConflict ==
    /\ pc = "merge"
    /\ k = Len(protectedBlocks)
    /\ demoFile' = join(result)
    /\ syncLog' = Append(syncLog, [action |-> "smart_merge", file |-> File,
                                   blocks_preserved |-> Len(protectedBlocks)])
    /\ changes' = [changes EXCEPT !.preserved =
                      Append(@, [file |-> File, blocks |-> Len(protectedBlocks)])]
    /\ pc' = "done"
    /\ UNCHANGED <<config, mainFile, demoContent, demoLines, protectedBlocks, k, result,
                   warnings, contextBefore, contextAfter, insertPosition, replaceEnd,
                   resultBefore, validationResults, validation, errors,
                   syncVars, firstRun>>

\* lines 454-457 and 342-362: the merged content is written and recorded
FinishMerge ==
    /\ pc = "merge"
    /\ k = Len(protectedBlocks)
    /\ demoFile' = join(result)
    /\ IF Len(warnings) > 0
       THEN /\ syncLog' = Append(syncLog, [action |-> "smart_merge_with_warnings",
                                           file |-> File,
                                           blocks_preserved |-> Len(protectedBlocks),
                                           warnings |-> warnings])
            /\ changes' = [preserved |-> Append(changes.preserved,
                                            [file |-> File, blocks |-> Len(protectedBlocks)]),
                           conflicts |-> Append(changes.conflicts,
                                            [file |-> File, warnings |-> warnings])]
       ELSE /\ syncLog' = Append(syncLog, [action |-> "smart_merge", file |-> File,
                                           blocks_preserved |-> Len(protectedBlocks)])
            /\ changes' = [changes EXCEPT !.preserved =
                              Append(@, [file |-> File, blocks |-> Len(protectedBlocks)])]
    /\ pc' = "done"
    /\ UNCHANGED <<config, mainFile, demoContent, demoLines, protectedBlocks, k, result,
                   warnings, contextBefore, contextAfter, insertPosition, replaceEnd,
                   resultBefore, validationResults, validation, errors,
                   syncVars, firstRun>>

(***************************************************************************)
(* validateSync and the two validators of protected blocks                 *)
(***************************************************************************)
\* part_000 lines 691-700: the start-marker lines less the end-marker lines
RECURSIVE countOpenBlocks(_, _, _)
countOpenBlocks(lines, i, openBlocks) ==
    IF i >= Len(lines) THEN openBlocks
    ELSE LET line == At(lines, i)
             opened == IF someIncludes(config.start_markers, line)
                       THEN openBlocks + 1 ELSE openBlocks
             closed == IF someIncludes(config.end_markers, line)
                       THEN opened - 1 ELSE opened
         IN  countOpenBlocks(lines, i + 1, closed)

\* a variant that reports a surplus of end markers only
validateProtectedBlocks_SurplusEnd(content) ==
    LET openBlocks == countOpenBlocks(split(content), 0, 0) IN
    IF openBlocks < 0
    THEN [valid |-> FALSE,
          error |-> <<"Unclosed protected blocks: ", "missing START">>]
    ELSE [valid |-> TRUE]

\* part_000 lines 684-708: the orchestrator's validateProtectedBlocks
validateProtectedBlocks(content) ==
    LET openBlocks == countOpenBlocks(split(content), 0, 0) IN
    IF openBlocks # 0
    THEN [valid |-> FALSE,
          error |-> <<"Unclosed protected blocks: ",
                      IF openBlocks > 0 THEN "missing END" ELSE "missing START">>]
    ELSE [valid |-> TRUE]

\* part_000 lines 634-642: every preserved file is read back and validated
RECURSIVE validatePreserved(_, _, _)
validatePreserved(preserved, i, errs) ==
    IF i >= Len(preserved) THEN errs
    ELSE LET file == At(preserved, i).file
             v == validateProtectedBlocks(demoFile)
         IN  validatePreserved(preserved, i + 1,
                 IF ~v.valid THEN Append(errs, <<file, ": ", v.error>>) ELSE errs)

\* part_000 lines 628-679: step 5 of sync; import checks are left out
ValidateSync ==
    /\ pc = "done"
    /\ validationResults' =
           [errors   |-> IF config.validate_protected_blocks
                         THEN validatePreserved(changes.preserved, 0, <<>>)
                         ELSE <<>>,
            warnings |-> <<>>]
    /\ pc' = "validated"
    /\ UNCHANGED <<config, mainFile, demoFile, demoContent, demoLines, protectedBlocks, k,
                   result, warnings, contextBefore, contextAfter, insertPosition,
                   replaceEnd, resultBefore, changes, syncLog, validation, errors,
                   syncVars, firstRun>>

\* a variant that leaves the count negative after an unmatched end marker
RECURSIVE scanBlocks_NoReset(_, _, _, _, _, _)
scanBlocks_NoReset(filePath, lines, i, openBlocks, blockStarts, errs) ==
    IF i >= Len(lines)
    THEN IF openBlocks > 0
         THEN Append(errs, [file    |-> filePath,
                            type    |-> "protected_block",
                            line    |-> blockStarts[Len(blockStarts)],
                            message |-> <<openBlocks,
                                " unclosed INTENTIONAL block(s) - missing INTENTIONAL-END">>])
         ELSE errs
    ELSE LET line == At(lines, i)
             isStart == someIncludes(config.start_markers, line)
             isEnd == someIncludes(config.end_markers, line)
             opened == IF isStart THEN openBlocks + 1 ELSE openBlocks
             starts == IF isStart THEN Append(blockStarts, i + 1) ELSE blockStarts
             unmatched == isEnd /\ opened - 1 < 0
         IN  scanBlocks_NoReset(filePath, lines, i + 1,
                 IF ~isEnd THEN opened ELSE opened - 1,
                 starts,
                 IF unmatched
                 THEN Append(errs, [file    |-> filePath,
                                    type    |-> "protected_block",
                                    line    |-> i + 1,
                                    message |-> <<"INTENTIONAL-END without matching INTENTIONAL-START">>])
                 ELSE errs)

\* part_001 lines 820-858: SyncValidator.validateProtectedBlocks, the errors it pushes
RECURSIVE scanBlocks(_, _, _, _, _, _)
scanBlocks(filePath, lines, i, openBlocks, blockStarts, errs) ==
    IF i >= Len(lines)
    THEN IF openBlocks > 0
         THEN Append(errs, [file    |-> filePath,
                            type    |-> "protected_block",
                            line    |-> blockStarts[Len(blockStarts)],
                            message |-> <<openBlocks,
                                " unclosed INTENTIONAL block(s) - missing INTENTIONAL-END">>])
         ELSE errs
    ELSE LET line == At(lines, i)
             isStart == someIncludes(config.start_markers, line)
             isEnd == someIncludes(config.end_markers, line)
             opened == IF isStart THEN openBlocks + 1 ELSE openBlocks
             starts == IF isStart THEN Append(blockStarts, i + 1) ELSE blockStarts
             unmatched == isEnd /\ opened - 1 < 0
         IN  scanBlocks(filePath, lines, i + 1,
                 IF ~isEnd THEN opened ELSE IF unmatched THEN 0 ELSE opened - 1,
                 starts,
                 IF unmatched
                 THEN Append(errs, [file    |-> filePath,
                                    type    |-> "protected_block",
                                    line    |-> i + 1,
                                    message |-> <<"INTENTIONAL-END without matching INTENTIONAL-START">>])
                 ELSE errs)

SyncValidator_validateProtectedBlocks(filePath, content) ==
    scanBlocks(filePath, split(content), 0, 0, <<>>, errors)

Next == SmartMergeNoBlocks \/ BeginMerge \/ MergeBlock \/ FinishMerge \/ ValidateSync

Spec == Init /\ [][Next]_vars

(***************************************************************************)
(* The scans of one document: extraction, context sampling and the two     *)
(* validators applied to every document of a few lines                     *)
(***************************************************************************)
MaxScanLen == 6      \* lines of a scanned document

ScanLines == {<<"a">>, <<>>, <<"S">>, <<"E">>}

ScanInit ==
    /\ config = DefaultConfig
    /\ demoFile \in Texts(ScanLines, MaxScanLen)
    /\ mainFile = demoFile
    /\ InitRest

\* part_000 lines 324-327 and 407: the document is read, split and scanned for blocks
ExtractBlocks ==
    /\ pc = "start"
    /\ demoContent' = readDemoContent
    /\ demoLines' = split(readDemoContent)
    /\ protectedBlocks' = extractProtectedBlocks(readDemoContent)
    /\ k' = 0
    /\ pc' = "sample"
    /\ UNCHANGED <<config, mainFile, demoFile, result, warnings, contextBefore,
                   contextAfter, insertPosition, replaceEnd, resultBefore, changes,
                   syncLog, validationResults, validation, errors,
                   syncVars, firstRun>>

\* part_000 lines 418-419: the two context windows of block number k
SampleContext ==
    /\ pc = "sample"
    /\ k < Len(protectedBlocks)
    /\ contextBefore' = getContextBefore(demoLines, At(protectedBlocks, k).start, ContextCount)
    /\ contextAfter' = getContextAfter(demoLines, At(protectedBlocks, k).end, ContextCount)
    /\ k' = k + 1
    /\ UNCHANGED <<config, mainFile, demoFile, pc, demoContent, demoLines, protectedBlocks,
                   result, warnings, insertPosition, replaceEnd, resultBefore, changes,
                   syncLog, validationResults, validation, errors,
                   syncVars, firstRun>>

\* part_000 line 638: the orchestrator's validator reads the document
ValidateBlocks ==
    /\ pc = "sample"
    /\ k = Len(protectedBlocks)
    /\ validation' = validateProtectedBlocks(demoFile)
    /\ pc' = "validate"
    /\ UNCHANGED <<config, mainFile, demoFile, demoContent, demoLines, protectedBlocks, k,
                   result, warnings, contextBefore, contextAfter, insertPosition,
                   replaceEnd, resultBefore, changes, syncLog, validationResults, errors,
                   syncVars, firstRun>>

\* part_001 lines 793-796: SyncValidator.validateFile reads the document
ValidateFile ==
    /\ pc = "validate"
    /\ errors' = IF config.validate_protected_blocks
                 THEN SyncValidator_validateProtectedBlocks(File, demoFile)
                 ELSE errors
    /\ pc' = "checked"
    /\ UNCHANGED <<config, mainFile, demoFile, demoContent, demoLines, protectedBlocks, k,
                   result, warnings, contextBefore, contextAfter, insertPosition,
                   replaceEnd, resultBefore, changes, syncLog, validationResults, validation,
                   syncVars, firstRun>>

ScanNext == ExtractBlocks \/ SampleContext \/ ValidateBlocks \/ ValidateFile

ScanSpec == ScanInit /\ [][ScanNext]_vars

(***************************************************************************)
(* matchPattern: the glob is rewritten into a regular expression by three  *)
(* replacements, one after the other, and the file is tested against it    *)
(***************************************************************************)
\* String.prototype.replace with a global pattern for the literal text from
RECURSIVE replaceFrom(_, _, _, _, _)
replaceFrom(s, i, from, to, acc) ==
    IF i > Len(s) THEN acc
    ELSE IF i + Len(from) - 1 <= Len(s) /\ SubSeq(s, i, i + Len(from) - 1) = from
    THEN replaceFrom(s, i + Len(from), from, to, acc \o to)
    ELSE replaceFrom(s, i + 1, from, to, Append(acc, s[i]))

replaceAll(s, from, to) == replaceFrom(s, 1, from, to, <<>>)

AnyChars == <<".", "*">>                \* .*
NoSlashChars == <<"[", "^", "/", "]", "*">>   \* [^/]*

\* part_000 lines 185-188
regexPattern(pattern) ==
    replaceAll(replaceAll(replaceAll(pattern,
        <<"*", "*">>, AnyChars), <<"*">>, NoSlashChars), <<"?">>, <<".">>)

\* RegExp.test on the expressions the replacements produce: a literal character,
\* . for any character, [^/]* for a run of characters other than /
RECURSIVE regexTest(_, _, _, _)
regexTest(regex, r, file, f) ==
    IF r > Len(regex) THEN f > Len(file)
    ELSE IF r + 4 <= Len(regex) /\ SubSeq(regex, r, r + 4) = NoSlashChars
    THEN \/ regexTest(regex, r + 5, file, f)
         \/ f <= Len(file) /\ file[f] # "/" /\ regexTest(regex, r, file, f + 1)
    ELSE IF regex[r] = "."
    THEN f <= Len(file) /\ regexTest(regex, r + 1, file, f + 1)
    ELSE f <= Len(file) /\ file[f] = regex[r] /\ regexTest(regex, r + 1, file, f + 1)

\* part_000 lines 183-191
matchPattern(file, pattern) == regexTest(regexPattern(pattern), 1, file, 1)

somePattern(patterns, file) ==
    \E i \in 1..Len(patterns) : matchPattern(file, patterns[i])

(***************************************************************************)
(* sync: the seven steps, the catch and the exit                           *)
(***************************************************************************)
Steps == <<"detectChanges", "applyIgnorePatterns", "analyzeChangesWithAI", "applyChanges",
           "validateSync", "generatePRDescription", "outputResults">>

\* the steps that read or write files or run git
IoSteps == {"detectChanges", "analyzeChangesWithAI", "validateSync"}

MaxChanged == 2      \* files git reports as changed
MaxIgnore == 1       \* ignore patterns configured

\* the files of main-app, in the order git lists them
SyncFiles == << <<"a">>, <<"d", "/", "a">>, <<"d", "/", "a", "/", "b">>, <<"e", "/", "a">> >>

SyncPatterns == { <<"d", "/", "*", "*">>, <<"d", "/", "*">>, <<"*">>, <<"e", "/", "?">> }

SmartMergeSets == { <<>>, << <<"d", "/", "*">> >> }

\* the lines of git diff --name-status: a status for some of the files
Diffs ==
    {d \in [1..Len(SyncFiles) -> {"A", "M", "D", "-"}] :
        Cardinality({i \in 1..Len(SyncFiles) : d[i] # "-"}) <= MaxChanged}

SyncConfigs ==
    {[start_markers |-> DefaultConfig.start_markers,
      end_markers |-> DefaultConfig.end_markers,
      validate_protected_blocks |-> TRUE,
      ignore_patterns |-> ip,
      smart_merge_files |-> sm,
      sync_deletions |-> del,
      fail_on_error |-> foe] :
        ip \in SeqsFromEmpty(SyncPatterns, MaxIgnore), sm \in SmartMergeSets,
        del \in BOOLEAN, foe \in BOOLEAN}

SyncInit ==
    /\ config \in SyncConfigs
    /\ pc = Steps[1]
    /\ changes = [added |-> <<>>, modified |-> <<>>, deleted |-> <<>>,
                  conflicts |-> <<>>, preserved |-> <<>>]
    /\ mainFile = <<>>
    /\ demoFile = NoFile
    /\ demoContent = <<>>
    /\ demoLines = <<>>
    /\ protectedBlocks = <<>>
    /\ k = 0
    /\ result = <<>>
    /\ warnings = <<>>
    /\ contextBefore = <<>>
    /\ contextAfter = <<>>
    /\ insertPosition = -1
    /\ replaceEnd = -1
    /\ resultBefore = <<>>
    /\ syncLog = <<>>
    /\ validationResults = Undefined
    /\ validation = Undefined
    /\ errors = <<>>
    /\ stepsDone = <<>>
    /\ thrown = NoStep
    /\ exitCode = Running
    /\ resultsFile = Undefined
    /\ invoked = <<>>
    /\ firstRun = Undefined

\* the variables of the merge of one file, which the steps of sync leave alone here
mergeVars == <<mainFile, demoFile, demoContent, demoLines, protectedBlocks, k, result,
               warnings, contextBefore, contextAfter, insertPosition, replaceEnd,
               resultBefore, validation, errors, firstRun>>

RECURSIVE withStatus(_, _, _, _)
withStatus(diff, i, status, acc) ==
    IF i > Len(SyncFiles) THEN acc
    ELSE withStatus(diff, i + 1, status,
             IF diff[i] = status THEN Append(acc, SyncFiles[i]) ELSE acc)

\* part_000 lines 130-152
DetectChanges ==
    /\ pc = "detectChanges"
    /\ \E diff \in Diffs :
          changes' = [changes EXCEPT !.added = @ \o withStatus(diff, 1, "A", <<>>),
                                     !.modified = @ \o withStatus(diff, 1, "M", <<>>),
                                     !.deleted = @ \o withStatus(diff, 1, "D", <<>>)]
    /\ stepsDone' = Append(stepsDone, pc)
    /\ pc' = "applyIgnorePatterns"
    /\ UNCHANGED <<config, syncLog, validationResults, thrown, exitCode, resultsFile,
                   invoked, mergeVars>>

\* lines 160-171: the files no ignore pattern matches
RECURSIVE filterFiles(_, _, _)
filterFiles(files, i, acc) ==
    IF i > Len(files) THEN acc
    ELSE filterFiles(files, i + 1,
             IF somePattern(config.ignore_patterns, files[i]) THEN acc
             ELSE Append(acc, files[i]))

\* lines 164-165: the log entries of the files the first matching pattern ignores
RECURSIVE ignoredLog(_, _, _)
ignoredLog(files, i, acc) ==
    IF i > Len(files) THEN acc
    ELSE ignoredLog(files, i + 1,
             IF somePattern(config.ignore_patterns, files[i])
             THEN Append(acc, [action |-> "ignored", file |-> files[i]])
             ELSE acc)

\* a variant that leaves the deleted list as it is
ApplyIgnorePatterns_KeepsDeleted ==
    /\ pc = "applyIgnorePatterns"
    /\ changes' = [changes EXCEPT !.added = filterFiles(@, 1, <<>>),
                                  !.modified = filterFiles(@, 1, <<>>)]
    /\ syncLog' = ignoredLog(changes.modified, 1, ignoredLog(changes.added, 1, syncLog))
    /\ stepsDone' = Append(stepsDone, pc)
    /\ pc' = "analyzeChangesWithAI"
    /\ UNCHANGED <<config, validationResults, thrown, exitCode, resultsFile, invoked,
                   mergeVars>>

\* part_000 lines 157-178
ApplyIgnorePatterns ==
    /\ pc = "applyIgnorePatterns"
    /\ changes' = [changes EXCEPT !.added = filterFiles(@, 1, <<>>),
                                  !.modified = filterFiles(@, 1, <<>>),
                                  !.deleted = filterFiles(@, 1, <<>>)]
    /\ syncLog' = ignoredLog(changes.deleted, 1,
                      ignoredLog(changes.modified, 1, ignoredLog(changes.added, 1, syncLog)))
    /\ stepsDone' = Append(stepsDone, pc)
    /\ pc' = "analyzeChangesWithAI"
    /\ UNCHANGED <<config, validationResults, thrown, exitCode, resultsFile, invoked,
                   mergeVars>>

\* part_000 lines 196-224; the ai_detected log entries are left out
AnalyzeChangesWithAI ==
    /\ pc = "analyzeChangesWithAI"
    /\ stepsDone' = Append(stepsDone, pc)
    /\ pc' = "applyChanges"
    /\ UNCHANGED <<config, changes, syncLog, validationResults, thrown, exitCode,
                   resultsFile, invoked, mergeVars>>

\* lines 290-307: syncFile calls smartMergeFile or copyFile
syncFileOp(file) ==
    IF somePattern(config.smart_merge_files, file) THEN "smartMergeFile" ELSE "copyFile"

\* lines 257-274: the calls applyChanges makes, in order
applyOps ==
    [i \in 1..Len(changes.added) |-> [op |-> "copyFile", file |-> changes.added[i]]]
    \o [i \in 1..Len(changes.modified) |->
            [op |-> syncFileOp(changes.modified[i]), file |-> changes.modified[i]]]
    \o (IF config.sync_deletions
        THEN [i \in 1..Len(changes.deleted) |->
                 [op |-> "deleteFile", file |-> changes.deleted[i]]]
        ELSE <<>>)

\* part_000 lines 257-274: all calls return, or one of them throws; what a call
\* does to its file is the merge modelled above
ApplyChanges ==
    /\ pc = "applyChanges"
    /\ \E n \in 1..(Len(applyOps) + 1) :
          /\ invoked' = invoked \o SubSeq(applyOps, 1, Min(n, Len(applyOps)))
          /\ IF n > Len(applyOps)
             THEN /\ stepsDone' = Append(stepsDone, pc)
                  /\ pc' = "validateSync"
                  /\ thrown' = thrown
             ELSE /\ stepsDone' = stepsDone
                  /\ pc' = "catch"
                  /\ thrown' = pc
    /\ UNCHANGED <<config, changes, syncLog, validationResults, exitCode, resultsFile,
                   mergeVars>>

\* part_000 lines 628-679: the errors found are what the files validated hold;
\* with errors and fail_on_error the step throws before validationResults is set
SyncValidate ==
    /\ pc = "validateSync"
    /\ \E errs \in {<<>>, << <<File, ": ", <<"Unclosed protected blocks: ", "missing END">> >> >>} :
          IF errs # <<>> /\ config.fail_on_error
          THEN /\ validationResults' = validationResults
               /\ stepsDone' = stepsDone
               /\ pc' = "catch"
               /\ thrown' = pc
          ELSE /\ validationResults' = [errors |-> errs, warnings |-> <<>>]
               /\ stepsDone' = Append(stepsDone, pc)
               /\ pc' = "generatePRDescription"
               /\ thrown' = thrown
    /\ UNCHANGED <<config, changes, syncLog, exitCode, resultsFile, invoked, mergeVars>>

\* lines 733-740: the summary the description is built from
prDescription ==
    [added |-> Len(changes.added), modified |-> Len(changes.modified),
     deleted |-> Len(changes.deleted), conflicts |-> Len(changes.conflicts)]

\* part_000 lines 732-809
GeneratePRDescription ==
    /\ pc = "generatePRDescription"
    /\ stepsDone' = Append(stepsDone, pc)
    /\ pc' = "outputResults"
    /\ UNCHANGED <<config, changes, syncLog, validationResults, thrown, exitCode,
                   resultsFile, invoked, mergeVars>>

\* lines 815-822: the object outputResults writes to sync-results.json
output(description, error) ==
    [success |-> error = NoStep, changes |-> changes, validation |-> validationResults,
     prDescription |-> description, error |-> error]

\* the writes of outputResults, in order; each of them can throw
Writes == <<"sync-results.json", "pr-description.md", "GITHUB_OUTPUT">>

\* part_000 lines 118-121 and 814-843: step 7, then process.exit(0); a write that
\* throws leaves the writes before it done and passes control to the catch
OutputResults ==
    /\ pc = "outputResults"
    /\ \E failing \in 1..(Len(Writes) + 1) :
          /\ resultsFile' = IF failing > 1 THEN output(prDescription, NoStep)
                            ELSE resultsFile
          /\ IF failing > Len(Writes)
             THEN /\ stepsDone' = Append(stepsDone, pc)
                  /\ exitCode' = "0"
                  /\ pc' = "exit"
                  /\ thrown' = thrown
             ELSE /\ stepsDone' = stepsDone
                  /\ exitCode' = exitCode
                  /\ pc' = "catch"
                  /\ thrown' = pc
    /\ UNCHANGED <<config, changes, syncLog, validationResults, invoked, mergeVars>>

\* git, a file read or a file write of the step fails
StepThrows ==
    /\ pc \in IoSteps
    /\ thrown' = pc
    /\ pc' = "catch"
    /\ UNCHANGED <<config, changes, syncLog, validationResults, stepsDone, exitCode,
                   resultsFile, invoked, mergeVars>>

\* the writes outputResults makes for a null description, and one past them
handlerWrites ==
    {i \in 1..(Len(Writes) + 1) : i > Len(Writes) \/ Writes[i] # "pr-description.md"}

\* a variant whose handler passes the description on
CatchError_KeepsDescription ==
    /\ pc = "catch"
    /\ \E failing \in handlerWrites :
          /\ resultsFile' = IF failing > 1 THEN output(prDescription, thrown)
                            ELSE resultsFile
          /\ pc' = IF failing > Len(Writes) THEN "exit" ELSE "fatal"
    /\ exitCode' = "1"
    /\ UNCHANGED <<config, changes, syncLog, validationResults, stepsDone, thrown,
                   invoked, mergeVars>>

\* part_000 lines 121-124 and 861-864: outputResults(null, error), process.exit(1);
\* with a null description pr-description.md is not written; if a write throws
\* here, the promise is rejected and the main module's catch exits with 1
CatchError ==
    /\ pc = "catch"
    /\ \E failing \in handlerWrites :
          /\ resultsFile' = IF failing > 1 THEN output(Null, thrown) ELSE resultsFile
          /\ pc' = IF failing > Len(Writes) THEN "exit" ELSE "fatal"
    /\ exitCode' = "1"
    /\ UNCHANGED <<config, changes, syncLog, validationResults, stepsDone, thrown,
                   invoked, mergeVars>>

SyncNext ==
    \/ DetectChanges \/ ApplyIgnorePatterns \/ AnalyzeChangesWithAI \/ ApplyChanges
    \/ SyncValidate \/ GeneratePRDescription \/ OutputResults \/ StepThrows \/ CatchError

SyncSpec == SyncInit /\ [][SyncNext]_vars

(***************************************************************************)
(* The merge of one file while other files are merged: the orchestrator's  *)
(* fields changes and syncLog are the only state the merges share          *)
(***************************************************************************)
MaxOthers == 2       \* merges of other files that complete meanwhile

OtherFile == "src/Other.js"

\* part_000 lines 406-458 as a function of the two texts and the blocks
RECURSIVE mergeLoop(_, _, _, _, _)
mergeLoop(blocks, dLines, i, lines, warns) ==
    IF i >= Len(blocks) THEN [content |-> join(lines), warnings |-> warns]
    ELSE LET block == At(blocks, i)
             ctxB == getContextBefore(dLines, block.start, ContextCount)
             ctxA == getContextAfter(dLines, block.end, ContextCount)
             pos == findInsertPosition(lines, ctxB, ctxA)
             rend == IF pos # -1 THEN findContextAfterPosition(lines, ctxA, pos) ELSE -1
         IN  IF pos # -1
             THEN mergeLoop(blocks, dLines, i + 1,
                            IF rend # -1 THEN spliceReplace(lines, block, pos, rend)
                                         ELSE spliceInsert(lines, block, pos),
                            warns)
             ELSE mergeLoop(blocks, dLines, i + 1, appendFallback(lines, block),
                            Append(warns, contextMissingWarning(block)))

intelligentMerge(mainText, demoText, blocks) ==
    mergeLoop(blocks, split(demoText), 0, split(mainText), <<>>)

\* no line or one line of S
OptLines(S) == {<<>>} \cup {<<l>> : l \in S}

\* main files of one line and of two lines
InterleaveMains ==
    {join(<<l>>) : l \in CoreMainLines} \cup {join(<<l, m>>) : l, m \in CoreMainLines}

\* a demo file with two closed blocks, or no demo file; the time the merges of
\* other files take is the bound of this specification, not the size of the file
InterleaveInit ==
    /\ config = DefaultConfig
    /\ \/ \E pre \in OptLines(PreLines), mid \in OptLines(MidLines),
             post \in OptLines(PostLines),
             b1 \in OptLines(BodyLines), b2 \in OptLines(BodyLines) :
             demoFile = join(pre \o << <<"S">> >> \o b1 \o << <<"E">> >> \o mid
                                 \o << <<"S">> >> \o b2 \o << <<"E">> >> \o post)
       \/ demoFile = NoFile
    /\ mainFile \in InterleaveMains
    /\ InitRest

othersLogged == Len(SelectSeq(syncLog, LAMBDA e : e.file = OtherFile))

\* a variant in which the warnings array is a field the merges share
OtherFileMerged_SharedWarnings ==
    /\ pc \in {"start", "merge", "done"}
    /\ othersLogged < MaxOthers
    /\ \E warned \in BOOLEAN :
          LET w == << [type |-> "protected_block_context_missing"] >> IN
          IF warned
          THEN /\ syncLog' = Append(syncLog, [action |-> "smart_merge_with_warnings",
                                              file |-> OtherFile, blocks_preserved |-> 1,
                                              warnings |-> w])
               /\ changes' = [preserved |-> Append(changes.preserved,
                                               [file |-> OtherFile, blocks |-> 1]),
                              conflicts |-> Append(changes.conflicts,
                                               [file |-> OtherFile, warnings |-> w])]
               /\ warnings' = warnings \o w
          ELSE /\ syncLog' = Append(syncLog, [action |-> "smart_merge", file |-> OtherFile,
                                              blocks_preserved |-> 1])
               /\ changes' = [changes EXCEPT !.preserved =
                                 Append(@, [file |-> OtherFile, blocks |-> 1])]
               /\ warnings' = warnings
    /\ UNCHANGED <<config, mainFile, demoFile, pc, demoContent, demoLines, protectedBlocks,
                   k, result, contextBefore, contextAfter, insertPosition,
                   replaceEnd, resultBefore, validationResults, validation, errors,
                   syncVars, firstRun>>

\* part_000 lines 342-362: the smartMergeFile of another file completes, with or
\* without warnings; it writes its own file and pushes to syncLog and changes
OtherFileMerged ==
    /\ pc \in {"start", "merge", "done"}
    /\ othersLogged < MaxOthers
    /\ \E warned \in BOOLEAN :
          LET w == << [type |-> "protected_block_context_missing"] >> IN
          IF warned
          THEN /\ syncLog' = Append(syncLog, [action |-> "smart_merge_with_warnings",
                                              file |-> OtherFile, blocks_preserved |-> 1,
                                              warnings |-> w])
               /\ changes' = [preserved |-> Append(changes.preserved,
                                               [file |-> OtherFile, blocks |-> 1]),
                              conflicts |-> Append(changes.conflicts,
                                               [file |-> OtherFile, warnings |-> w])]
          ELSE /\ syncLog' = Append(syncLog, [action |-> "smart_merge", file |-> OtherFile,
                                              blocks_preserved |-> 1])
               /\ changes' = [changes EXCEPT !.preserved =
                                 Append(@, [file |-> OtherFile, blocks |-> 1])]
    /\ UNCHANGED <<config, mainFile, demoFile, pc, demoContent, demoLines, protectedBlocks,
                   k, result, warnings, contextBefore, contextAfter, insertPosition,
                   replaceEnd, resultBefore, validationResults, validation, errors,
                   syncVars, firstRun>>

InterleaveNext ==
    SmartMergeNoBlocks \/ BeginMerge \/ MergeBlock \/ FinishMerge \/ OtherFileMerged

InterleaveSpec == InterleaveInit /\ [][InterleaveNext]_vars

(***************************************************************************)
(* part_001: smartMergeFile with the positional mergeWithProtectedBlocks   *)
(***************************************************************************)
MaxPosDemoLen == 3   \* lines of a demo file, positional merge
MaxPosMainLen == 3   \* lines of a main file, positional merge

PosMainLines == {<<"a">>, <<"S">>, <<"E">>}

\* part_001 lines 413-416: the index behind the next end-marker line of main
RECURSIVE skipToEnd(_, _)
skipToEnd(mainLines, i) ==
    IF i < Len(mainLines) /\ ~someIncludes(config.end_markers, At(mainLines, i))
    THEN skipToEnd(mainLines, i + 1)
    ELSE i + 1

\* part_001 lines 402-427: the while loop over main's lines
RECURSIVE positionalFrom(_, _, _, _, _)
positionalFrom(mainLines, blocks, i, blockIndex, lines) ==
    IF i >= Len(mainLines) THEN lines
    ELSE LET line == At(mainLines, i) IN
         IF someIncludes(config.start_markers, line) /\ blockIndex < Len(blocks)
         THEN positionalFrom(mainLines, blocks, skipToEnd(mainLines, i + 1),
                             blockIndex + 1,
                             lines \o split(At(blocks, blockIndex).content))
         ELSE positionalFrom(mainLines, blocks, i + 1, blockIndex, Append(lines, line))

\* part_001 lines 392-430
mergeWithProtectedBlocks(mainText, blocks) ==
    join(positionalFrom(split(mainText), blocks, 0, 0, <<>>))

PositionalInit ==
    /\ config = DefaultConfig
    /\ \/ demoFile \in Texts(CoreDemoLines, MaxPosDemoLen)
       \/ demoFile = NoFile
    /\ mainFile \in Texts(PosMainLines, MaxPosMainLen)
    /\ InitRest

\* part_001 lines 320-336: no protected blocks, the main file is copied
PositionalNoBlocks ==
    /\ pc = "start"
    /\ extractProtectedBlocks(readDemoContent) = <<>>
    /\ demoContent' = readDemoContent
    /\ protectedBlocks' = extractProtectedBlocks(readDemoContent)
    /\ demoFile' = mainFile
    /\ syncLog' = Append(syncLog, [action |-> "smart_merge_no_blocks", file |-> File])
    /\ pc' = "done"
    /\ UNCHANGED <<config, mainFile, demoLines, k, result, warnings,
                   contextBefore, contextAfter, insertPosition, replaceEnd,
                   resultBefore, changes, validationResults, validation, errors,
                   syncVars, firstRun>>

\* part_001 lines 338-349: the positional merge is written and recorded
PositionalMerge ==
    /\ pc = "start"
    /\ extractProtectedBlocks(readDemoContent) # <<>>
    /\ demoContent' = readDemoContent
    /\ protectedBlocks' = extractProtectedBlocks(readDemoContent)
    /\ demoFile' = mergeWithProtectedBlocks(mainContent,
                                            extractProtectedBlocks(readDemoContent))
    /\ syncLog' = Append(syncLog, [action |-> "smart_merge", file |-> File,
                                   blocks_preserved |->
                                       Len(extractProtectedBlocks(readDemoContent))])
    /\ changes' = [changes EXCEPT !.preserved =
                      Append(@, [file |-> File,
                                 blocks |-> Len(extractProtectedBlocks(readDemoContent))])]
    /\ pc' = "done"
    /\ UNCHANGED <<config, mainFile, demoLines, k, result, warnings,
                   contextBefore, contextAfter, insertPosition, replaceEnd,
                   resultBefore, validationResults, validation, errors,
                   syncVars, firstRun>>

PositionalNext == PositionalNoBlocks \/ PositionalMerge

PositionalSpec == PositionalInit /\ [][PositionalNext]_vars

(***************************************************************************)
(* The same main file merged a second time, into the file the first merge  *)
(* wrote                                                                   *)
(***************************************************************************)
RemergeInit == InitTwoBlocks \/ InitFresh

\* part_000 lines 257-274 and 320-328: the next sync calls smartMergeFile for the
\* file again; main is as it was, the demo file is what the first merge wrote
Remerge ==
    /\ pc = "done"
    /\ firstRun = Undefined
    /\ protectedBlocks # <<>>
    /\ firstRun' = [content |-> demoFile, warnings |-> warnings]
    /\ pc' = "start"
    /\ UNCHANGED <<config, mainFile, demoFile, demoContent, demoLines, protectedBlocks, k,
                   result, warnings, contextBefore, contextAfter, insertPosition,
                   replaceEnd, resultBefore, changes, syncLog, validationResults,
                   validation, errors, syncVars>>

RemergeNext == SmartMergeNoBlocks \/ BeginMerge \/ MergeBlock \/ FinishMerge \/ Remerge

RemergeSpec == RemergeInit /\ [][RemergeNext]_vars

(***************************************************************************)
(* Vocabulary of the properties                                            *)
(***************************************************************************)
SetMin(S) == CHOOSE x \in S : \A y \in S : x <= y

\* the lines of a block as they stand in the demo file, markers included
demoBlockLines(block) == Slice(demoLines, block.start, block.end + 1)

\* the positions of doc at which a before-context matches
BeforeMatches(doc, ctx) ==
    {i \in 0..(Len(doc) - 1) : matchesContext(doc, i, ctx, TRUE)}

\* the positions of doc within the lookahead of p at which an after-context matches
AfterMatches(doc, ctx, p) ==
    {e \in p..(Min(Len(doc), p + LookAhead) - 1) : matchesContext(doc, e, ctx, FALSE)}

\* a loop iteration has run; its block is lastBlock
Iterated == pc \in {"merge", "done", "validated"} /\ k >= 1
lastBlock == At(protectedBlocks, k - 1)

isBlank(line) == trim(line) = <<>>
hasMarker(line) ==
    \/ \E m \in 1..Len(config.start_markers) : includes(line, config.start_markers[m])
    \/ \E m \in 1..Len(config.end_markers) : includes(line, config.end_markers[m])

(***************************************************************************)
(* C1  Preservation: once the merge of a file is written, every protected  *)
(* block extracted from the demo file stands in the written content as a   *)
(* contiguous run of lines identical to the block's lines.                 *)
(* The code breaks it: a later block can be spliced into an earlier one.   *)
(***************************************************************************)
C1_Preservation ==
    (pc = "done" /\ Len(protectedBlocks) > 0) =>
        \A j \in 1..Len(protectedBlocks) :
            includes(split(demoFile), demoBlockLines(protectedBlocks[j]))

(***************************************************************************)
(* C2  Round trip: main is the demo file with its single well-formed block *)
(* replaced by 0..19 lines, no blank lines, the before-context matches     *)
(* main at exactly one position and the after-context starts at no         *)
(* replaced line: the merge returns the demo file and no warning.          *)
(***************************************************************************)
RoundTripLines == LookAhead - 1

\* the number of lines main holds in the place of the block
replacedCount == Len(split(mainFile)) - (Len(demoLines) - Len(demoBlockLines(protectedBlocks[1])))

RoundTripCase ==
    /\ pc = "done"
    /\ Len(protectedBlocks) = 1
    /\ LET b == protectedBlocks[1]
           D == demoLines
           S == split(mainFile)
           n == replacedCount
       IN  /\ \A i \in 1..Len(D) : ~isBlank(D[i])
           /\ \A i \in 1..Len(S) : ~isBlank(S[i])
           /\ someIncludes(config.start_markers, At(D, b.start))
           /\ someIncludes(config.end_markers, At(D, b.end))
           /\ \A i \in (b.start + 1)..(b.end - 1) : ~hasMarker(At(D, i))
           /\ \E i \in 0..(b.start - 1) : ~hasMarker(At(D, i))
           /\ \E i \in (b.end + 1)..(Len(D) - 1) : ~hasMarker(At(D, i))
           /\ n \in 0..RoundTripLines
           /\ Slice(S, 0, b.start) = Slice(D, 0, b.start)
           /\ Slice(S, b.start + n, Len(S)) = Slice(D, b.end + 1, Len(D))
           /\ Cardinality(BeforeMatches(S, getContextBefore(D, b.start, ContextCount))) = 1
           /\ \A i \in b.start..(b.start + n - 1) :
                  ~matchesContext(S, i, getContextAfter(D, b.end, ContextCount), FALSE)

\* the only marker lines of the demo file are the first and last line of the block
NoStrayMarker ==
    \A i \in 0..(Len(demoLines) - 1) :
        hasMarker(At(demoLines, i)) =>
            i \in {protectedBlocks[1].start, protectedBlocks[1].end}

C2_RoundTripOriginal ==
    RoundTripCase => (demoFile = join(demoLines) /\ warnings = <<>>)

\* C2 as amended: the same, for a demo file without marker lines outside the block
C2_RoundTrip ==
    (RoundTripCase /\ NoStrayMarker) => (demoFile = join(demoLines) /\ warnings = <<>>)

C2_Witness ==
    /\ RoundTripCase /\ NoStrayMarker
    /\ replacedCount = RoundTripLines
    /\ demoFile = join(demoLines)
    /\ demoFile # mainFile

(***************************************************************************)
(* C3  Missing-context fallback: an iteration whose block's before-context *)
(* matches at no position of the working document leaves the document's    *)
(* lines as they are and appends an empty line, the warning comment and    *)
(* the block's lines; it adds exactly one context-missing warning that     *)
(* names the block's start and end; the document grows by the block's line *)
(* count plus 2.                                                           *)
(***************************************************************************)
C3_Fallback ==
    [][(/\ pc = "merge"
        /\ k < Len(protectedBlocks)
        /\ BeforeMatches(result,
               getContextBefore(demoLines, At(protectedBlocks, k).start, ContextCount)) = {})
       => LET b == At(protectedBlocks, k) IN
          /\ result' = result \o << <<>>, WarningComment >> \o demoBlockLines(b)
          /\ Len(result') = Len(result) + (b.end - b.start + 1) + 2
          /\ Len(warnings') = Len(warnings) + 1
          /\ SubSeq(warnings', 1, Len(warnings)) = warnings
          /\ LET w == warnings'[Len(warnings')] IN
             /\ w.type = "protected_block_context_missing"
             /\ w.message[2] = b.start
             /\ w.message[4] = b.end]_vars

C3_Witness ==
    /\ Iterated
    /\ resultBefore # <<>>
    /\ BeforeMatches(resultBefore, contextBefore) = {}
    /\ insertPosition = -1
    /\ Len(warnings) = 1
    /\ Len(result) = Len(resultBefore) + Len(demoBlockLines(lastBlock)) + 2

(***************************************************************************)
(* C4  No-block adoption: when the demo text holds no protected block, the *)
(* demo file written is the main file, there is no warning, and the file   *)
(* is in neither changes.preserved nor changes.conflicts.                  *)
(***************************************************************************)
C4_NoBlockAdoption ==
    (pc = "done" /\ extractProtectedBlocks(demoContent) = <<>>) =>
        /\ demoFile = mainFile
        /\ warnings = <<>>
        /\ \A i \in 1..Len(changes.preserved) : changes.preserved[i].file # File
        /\ \A i \in 1..Len(changes.conflicts) : changes.conflicts[i].file # File

C4_Witness ==
    /\ pc = "done"
    /\ extractProtectedBlocks(demoContent) = <<>>
    /\ demoContent # mainFile
    /\ hasMarker(split(demoContent)[1])
    /\ demoFile = mainFile

(***************************************************************************)
(* C5  Sequential dependency: the iterations take the blocks in the order  *)
(* of extraction, which is their order in the demo file, and the anchor    *)
(* of block k is the one a search of the current working document gives.   *)
(***************************************************************************)
C5_Sequential ==
    [][k' # k =>
        /\ k' = k + 1
        /\ k < Len(protectedBlocks)
        /\ \A j \in 1..(Len(protectedBlocks) - 1) :
               protectedBlocks[j].end < protectedBlocks[j + 1].start
        /\ LET b == At(protectedBlocks, k) IN
           /\ contextBefore' = getContextBefore(demoLines, b.start, ContextCount)
           /\ contextAfter' = getContextAfter(demoLines, b.end, ContextCount)
           /\ resultBefore' = result
           /\ insertPosition' = findInsertPosition(result, contextBefore', contextAfter')
           /\ insertPosition' # -1 =>
                  Slice(result', insertPosition', insertPosition' + Len(demoBlockLines(b)))
                      = demoBlockLines(b)]_vars

\* the second block is anchored where a search of main's lines would not put it
C5_Witness ==
    /\ Iterated
    /\ k = 2
    /\ insertPosition # -1
    /\ resultBefore # split(mainFile)
    /\ insertPosition # findInsertPosition(split(mainFile), contextBefore, contextAfter)

(***************************************************************************)
(* C6  Two blocks: when block 1's splice replaces a span of main and every *)
(* occurrence in main of block 2's before-context lies inside that span,   *)
(* block 2 finds no anchor: it is appended by the fallback with a warning. *)
(* The code breaks it: block 2's context is found in block 1's lines.      *)
(***************************************************************************)
C6_TwoBlocks ==
    LET S == split(mainFile)
        b1 == protectedBlocks[1]
        ctxB1 == getContextBefore(demoLines, b1.start, ContextCount)
        ctxA1 == getContextAfter(demoLines, b1.end, ContextCount)
        p1 == findInsertPosition(S, ctxB1, ctxA1)
        e1 == findContextAfterPosition(S, ctxA1, p1)
    IN  (/\ Iterated
         /\ k = 2
         /\ p1 # -1
         /\ e1 > p1
         /\ contextBefore # <<>>
         /\ BeforeMatches(S, contextBefore) # {}
         /\ \A i \in BeforeMatches(S, contextBefore) :
                p1 <= i /\ i + Len(contextBefore) <= e1)
        => /\ insertPosition = -1
           /\ result = resultBefore \o << <<>>, WarningComment >> \o demoBlockLines(lastBlock)
           /\ warnings # <<>>
           /\ warnings[Len(warnings)].message[2] = lastBlock.start

(***************************************************************************)
(* C7  First-match anchor: the insertion point of an iteration is          *)
(* i + len(contextBefore) for the smallest position i of the working       *)
(* document at which the before-context matches, and -1 only when it       *)
(* matches at no position.                                                 *)
(* The code breaks it: a match that ends at the document's end is skipped. *)
(***************************************************************************)
C7_FirstMatch ==
    Iterated =>
        LET M == BeforeMatches(resultBefore, contextBefore) IN
        IF M = {} THEN insertPosition = -1
        ELSE insertPosition = SetMin(M) + Len(contextBefore)

(***************************************************************************)
(* C8  Replacement span: with the insertion point p found and e the first  *)
(* position in [p, min(len, p+20)) at which the after-context matches, the *)
(* iteration replaces exactly the lines [p, e) by the block's lines; the   *)
(* lines before p and from e on are kept in order, so at most 19 lines are *)
(* removed.                                                                *)
(***************************************************************************)
MaxRemoved == LookAhead - 1

C8_ReplacementSpan ==
    (/\ Iterated
     /\ insertPosition # -1
     /\ AfterMatches(resultBefore, contextAfter, insertPosition) # {})
    => LET p == insertPosition
           e == SetMin(AfterMatches(resultBefore, contextAfter, p))
       IN  /\ result = Slice(resultBefore, 0, p) \o demoBlockLines(lastBlock)
                           \o Slice(resultBefore, e, Len(resultBefore))
           /\ Len(resultBefore) + Len(demoBlockLines(lastBlock)) - Len(result) <= MaxRemoved

C8_Witness ==
    /\ Iterated
    /\ insertPosition > 0
    /\ AfterMatches(resultBefore, contextAfter, insertPosition) # {}
    /\ SetMin(AfterMatches(resultBefore, contextAfter, insertPosition))
           = insertPosition + MaxRemoved
    /\ Len(result) = Len(resultBefore) + Len(demoBlockLines(lastBlock)) - MaxRemoved

(***************************************************************************)
(* C9  Insert without span: with the insertion point p found and the       *)
(* after-context matching at no position in [p, min(len, p+20)), the       *)
(* block's lines are inserted at p and no line is removed.                 *)
(***************************************************************************)
C9_InsertWithoutSpan ==
    (/\ Iterated
     /\ insertPosition # -1
     /\ AfterMatches(resultBefore, contextAfter, insertPosition) = {})
    => result = Slice(resultBefore, 0, insertPosition) \o demoBlockLines(lastBlock)
                    \o Slice(resultBefore, insertPosition, Len(resultBefore))

\* the after-context does match, but only beyond the lookahead
C9_Witness ==
    /\ Iterated
    /\ insertPosition > 0
    /\ AfterMatches(resultBefore, contextAfter, insertPosition) = {}
    /\ matchesContext(resultBefore, insertPosition + LookAhead, contextAfter, FALSE)
    /\ Len(result) = Len(resultBefore) + Len(demoBlockLines(lastBlock))

(***************************************************************************)
(* C10  Context window: at every position of the demo file and under       *)
(* every marker configuration, getContextBefore and getContextAfter return *)
(* at most 3 entries, each a trimmed, non-empty line of the file that      *)
(* contains no start or end marker.                                        *)
(***************************************************************************)
goodWindow(ctx) ==
    /\ Len(ctx) <= ContextCount
    /\ \A i \in 1..Len(ctx) :
          /\ ctx[i] # <<>>
          /\ ctx[i][1] # SP
          /\ ctx[i][Len(ctx[i])] # SP
          /\ ~hasMarker(ctx[i])
          /\ \E j \in 1..Len(demoLines) : ctx[i] = trim(demoLines[j])

C10_ContextWindow ==
    /\ \A pos \in 0..(Len(demoLines) - 1) :
          /\ goodWindow(getContextBefore(demoLines, pos, ContextCount))
          /\ goodWindow(getContextAfter(demoLines, pos, ContextCount))
    /\ Iterated => goodWindow(contextBefore) /\ goodWindow(contextAfter)

\* the lines before a block hold a marker line and an indented line: the context
\* is the indented line, trimmed
C10_Witness ==
    /\ Iterated
    /\ lastBlock.start <= ContextCount
    /\ \E i \in 0..(lastBlock.start - 1) : hasMarker(At(demoLines, i))
    /\ \E i \in 0..(lastBlock.start - 1) :
           /\ ~isBlank(At(demoLines, i))
           /\ At(demoLines, i)[1] = SP
           /\ contextBefore = <<trim(At(demoLines, i))>>

(***************************************************************************)
(* Vocabulary of the properties of the scans                               *)
(***************************************************************************)
\* a context window of some block has been sampled; the block is lastBlock
Sampled == pc \in {"sample", "validate", "checked"} /\ k >= 1

\* a line the sampler takes: not blank and no marker line
qualifies(line) == ~isBlank(line) /\ ~hasMarker(line)

isStartLine(line) == someIncludes(config.start_markers, line)
isEndLine(line) == someIncludes(config.end_markers, line)

(***************************************************************************)
(* C11  Sampler compensation: blank and marker lines next to a block do    *)
(* not use up the window; the walk goes on, up to 3 times the window, so   *)
(* each window of a block holds 3 lines whenever 3 qualifying lines stand  *)
(* within that outer bound.                                                *)
(* The code breaks it: only the 3 lines next to the block are read.        *)
(***************************************************************************)
OuterBound == ContextCount + ContextCount + ContextCount

qualifyingBefore(lines, position) ==
    {i \in Max(0, position - OuterBound)..(position - 1) : qualifies(At(lines, i))}

qualifyingAfter(lines, position) ==
    {i \in (position + 1)..Min(Len(lines) - 1, position + OuterBound) :
        qualifies(At(lines, i))}

C11_Compensation ==
    Sampled =>
        /\ Cardinality(qualifyingBefore(demoLines, lastBlock.start)) >= ContextCount
               => Len(contextBefore) = ContextCount
        /\ Cardinality(qualifyingAfter(demoLines, lastBlock.end)) >= ContextCount
               => Len(contextAfter) = ContextCount

(***************************************************************************)
(* C12  Well-formed extraction: every block extracted has start <= end,    *)
(* a start marker on line start, an end marker on line end, as content the *)
(* lines start..end joined, and no start-marker or end-marker line         *)
(* strictly between start and end.                                         *)
(***************************************************************************)
Extracted == pc \in {"sample", "validate", "checked"}

wellFormed(b) ==
    /\ b.start <= b.end
    /\ isStartLine(At(demoLines, b.start))
    /\ isEndLine(At(demoLines, b.end))
    /\ b.content = join(Slice(demoLines, b.start, b.end + 1))

C12_WellFormedOriginal ==
    Extracted =>
        \A j \in 1..Len(protectedBlocks) :
            LET b == protectedBlocks[j] IN
            /\ wellFormed(b)
            /\ \A i \in (b.start + 1)..(b.end - 1) :
                   ~isStartLine(At(demoLines, i)) /\ ~isEndLine(At(demoLines, i))

\* C12 as amended: no end-marker line lies strictly between start and end;
\* start-marker lines may
C12_WellFormed ==
    Extracted =>
        \A j \in 1..Len(protectedBlocks) :
            LET b == protectedBlocks[j] IN
            /\ wellFormed(b)
            /\ \A i \in (b.start + 1)..(b.end - 1) : ~isEndLine(At(demoLines, i))

\* two blocks, one of them with a start-marker line inside
C12_Witness ==
    /\ Extracted
    /\ Len(protectedBlocks) = 2
    /\ \E j \in 1..2 : LET b == protectedBlocks[j] IN
           /\ wellFormed(b)
           /\ \E i \in (b.start + 1)..(b.end - 1) : isStartLine(At(demoLines, i))

(***************************************************************************)
(* C13  No nesting: a start-marker line inside an open block opens no      *)
(* block and stays content of the open one, which closes at the first      *)
(* end-marker line that follows: each block starts at the first            *)
(* start-marker line behind the block before it and ends at the first      *)
(* end-marker line behind its start; START, x, START, y, END gives one     *)
(* block over the five lines, and an END line behind it gives no block.    *)
(***************************************************************************)
startLinesFrom(lines, from) ==
    {i \in from..(Len(lines) - 1) : isStartLine(At(lines, i))}

endLinesFrom(lines, from) ==
    {i \in from..(Len(lines) - 1) : isEndLine(At(lines, i))}

NestedDoc == << <<"S">>, <<"a">>, <<"S">>, <<"a">>, <<"E">> >>

C13_NoNesting ==
    Extracted =>
        /\ \A j \in 1..Len(protectedBlocks) :
               LET b == protectedBlocks[j]
                   from == IF j = 1 THEN 0 ELSE protectedBlocks[j - 1].end + 1
               IN  /\ b.start = SetMin(startLinesFrom(demoLines, from))
                   /\ b.end = SetMin(endLinesFrom(demoLines, b.start + 1))
                   /\ b.content = join(Slice(demoLines, b.start, b.end + 1))
        /\ demoLines \in {NestedDoc, Append(NestedDoc, <<"E">>)} =>
               protectedBlocks = <<[start |-> 0, end |-> 4, content |-> join(NestedDoc)]>>

C13_Witness ==
    /\ Extracted
    /\ demoLines = Append(NestedDoc, <<"E">>)
    /\ Len(protectedBlocks) = 1
    /\ protectedBlocks[1].end - protectedBlocks[1].start = 4

(***************************************************************************)
(* C14  Trailing partial block: when the document ends inside an open      *)
(* block, that is, a start-marker line stands behind the last end-marker   *)
(* line, no block is emitted for it: every block ends before the unclosed  *)
(* start, and the blocks are those of the document cut before it.          *)
(***************************************************************************)
lastEndLine(lines) ==
    IF endLinesFrom(lines, 0) = {} THEN -1
    ELSE CHOOSE e \in endLinesFrom(lines, 0) : \A f \in endLinesFrom(lines, 0) : f <= e

\* the start-marker lines no end-marker line follows
unclosedStarts(lines) == startLinesFrom(lines, lastEndLine(lines) + 1)

C14_TrailingPartial ==
    (Extracted /\ unclosedStarts(demoLines) # {}) =>
        LET s == SetMin(unclosedStarts(demoLines)) IN
        /\ \A j \in 1..Len(protectedBlocks) : protectedBlocks[j].end < s
        /\ protectedBlocks = extractFrom(Slice(demoLines, 0, s), 0, FALSE, -1, <<>>, <<>>)

\* a closed block, then a start marker and a line behind it
C14_Witness ==
    /\ Extracted
    /\ Len(protectedBlocks) = 1
    /\ unclosedStarts(demoLines) # {}
    /\ SetMin(unclosedStarts(demoLines)) > protectedBlocks[1].end
    /\ SetMin(unclosedStarts(demoLines)) < Len(demoLines) - 1

(***************************************************************************)
(* C15  Unclosed-block detection: for a document with one start-marker     *)
(* line and no end-marker line the orchestrator's validateProtectedBlocks  *)
(* returns valid = false with 'missing END', and the SyncValidator records *)
(* one protected_block error, at the start marker's line; it is a          *)
(* validation error and no entry of the merge warnings.                    *)
(***************************************************************************)
Validated == pc \in {"validate", "checked"}

OneStartNoEnd ==
    /\ Cardinality(startLinesFrom(demoLines, 0)) = 1
    /\ endLinesFrom(demoLines, 0) = {}

C15_UnclosedDetected ==
    /\ (Validated /\ OneStartNoEnd) =>
           /\ validation.valid = FALSE
           /\ validation.error = <<"Unclosed protected blocks: ", "missing END">>
           /\ warnings = <<>>
    /\ (pc = "checked" /\ OneStartNoEnd) =>
           /\ Len(errors) = 1
           /\ errors[1].type = "protected_block"
           /\ errors[1].type # contextMissingWarning([start |-> 0, end |-> 0,
                                                       content |-> <<>>]).type
           /\ errors[1].file = File
           /\ errors[1].line - 1 \in startLinesFrom(demoLines, 0)

\* the start marker stands on the third line or later
C15_Witness ==
    /\ pc = "checked"
    /\ OneStartNoEnd
    /\ validation.valid = FALSE
    /\ Len(errors) = 1
    /\ errors[1].line >= ContextCount

(***************************************************************************)
(* C16  End without start: a document with an end-marker line that no      *)
(* earlier unclosed start-marker line matches (up to that line the end     *)
(* markers outnumber the start markers) is reported invalid by the         *)
(* orchestrator's validateProtectedBlocks, whatever other marker lines the *)
(* document holds.                                                         *)
(* The code breaks it: only the totals of the two markers are compared.    *)
(***************************************************************************)
unmatchedEnds(lines) ==
    {e \in endLinesFrom(lines, 0) :
        Cardinality({i \in startLinesFrom(lines, 0) : i < e})
            < Cardinality({i \in endLinesFrom(lines, 0) : i <= e})}

C16_EndWithoutStart ==
    (Validated /\ unmatchedEnds(demoLines) # {}) => validation.valid = FALSE

(***************************************************************************)
(* C17  Malformed derivative reported: when the demo file smartMergeFile   *)
(* read holds more start-marker lines than end-marker lines, validateSync  *)
(* leaves a protected-block error for the file in                          *)
(* validationResults.errors.                                               *)
(* The code breaks it: validateSync reads the file the merge has written,  *)
(* and only if the file is in changes.preserved.                           *)
(***************************************************************************)
C17_MalformedReported ==
    (/\ pc = "validated"
     /\ demoContent # mainFile
     /\ Cardinality(startLinesFrom(split(demoContent), 0))
            > Cardinality(endLinesFrom(split(demoContent), 0)))
    => \E i \in 1..Len(validationResults.errors) :
           validationResults.errors[i][1] = File

(***************************************************************************)
(* C18  Warnings reported, never fatal: an iteration adds exactly one      *)
(* protected_block_context_missing warning when its block finds no anchor  *)
(* (as it does whenever the before-context matches nowhere) and none when  *)
(* the block is anchored; smartMergeFile then completes, and the file is   *)
(* in changes.conflicts, with the warnings, exactly if there is a warning. *)
(***************************************************************************)
inConflicts(file) == \E i \in 1..Len(changes.conflicts) : changes.conflicts[i].file = file

C18_WarningsReported ==
    [][/\ k' # k =>
            /\ BeforeMatches(result, contextBefore') = {} => insertPosition' = -1
            /\ insertPosition' = -1 =>
                   /\ Len(warnings') = Len(warnings) + 1
                   /\ SubSeq(warnings', 1, Len(warnings)) = warnings
                   /\ warnings'[Len(warnings')].type = "protected_block_context_missing"
                   /\ warnings'[Len(warnings')].message[2] = At(protectedBlocks, k).start
            /\ insertPosition' # -1 => warnings' = warnings
       /\ (pc = "merge" /\ k = Len(protectedBlocks)) => pc' = "done"
       /\ pc' = "done" =>
            /\ inConflicts(File)' <=> warnings' # <<>>
            /\ \A i \in 1..Len(changes'.conflicts) :
                   changes'.conflicts[i].warnings = warnings'
            /\ Len(warnings') <= Len(protectedBlocks')]_vars

\* of two blocks one is anchored and one is not
C18_Witness ==
    /\ pc = "done"
    /\ k = 2
    /\ Len(warnings) = 1
    /\ inConflicts(File)
    /\ changes.conflicts[1].warnings = warnings

(***************************************************************************)
(* C19  Line numbers reported are 1-indexed: the message of a              *)
(* context-missing warning names the range (start + 1)-(end + 1) of its    *)
(* block, and every protected_block error of the SyncValidator carries the *)
(* 1-indexed number of a marker line of the document.                      *)
(* The code breaks it: the message prints block.start and block.end.       *)
(***************************************************************************)
C19_OneIndexed ==
    /\ (Iterated /\ insertPosition = -1) =>
           /\ warnings[Len(warnings)].message[2] = lastBlock.start + 1
           /\ warnings[Len(warnings)].message[4] = lastBlock.end + 1
    /\ \A i \in 1..Len(errors) :
           /\ errors[i].type = "protected_block"
           /\ errors[i].line \in 1..Len(split(demoFile))
           /\ hasMarker(At(split(demoFile), errors[i].line - 1))

(***************************************************************************)
(* C20  Termination without hard failure: every step inside                *)
(* intelligentMerge either runs the loop body for the next block, the k-th *)
(* of the extracted ones, found anchor or not, or returns once all of them *)
(* have been taken, and that return can always be taken; so the loop body  *)
(* runs once per block and the merge returns after that many steps.  Each  *)
(* anchor scan ends inside the working document: the insertion point is -1 *)
(* or one of its indices, the span's end -1 or an index within the         *)
(* lookahead.                                                              *)
(***************************************************************************)
C20_Termination ==
    /\ [](pc = "merge" =>
             /\ k <= Len(protectedBlocks)
             /\ k = Len(protectedBlocks) => ENABLED FinishMerge)
    /\ [][pc = "merge" =>
            \/ k < Len(protectedBlocks) /\ k' = k + 1 /\ pc' = "merge"
            \/ k = Len(protectedBlocks) /\ k' = k /\ pc' = "done"]_vars
    /\ []((pc \in {"done", "validated"} /\ protectedBlocks # <<>>)
             => (k = Len(protectedBlocks) /\ Len(warnings) <= k))
    /\ [](Iterated =>
             /\ insertPosition \in -1..(Len(resultBefore) - 1)
             /\ replaceEnd = -1
                 \/ replaceEnd \in insertPosition..
                        (Min(Len(resultBefore), insertPosition + LookAhead) - 1))

\* the second of two blocks found no anchor and the merge has returned
C20_Witness ==
    /\ pc = "done"
    /\ k = Len(protectedBlocks)
    /\ k = 2
    /\ insertPosition = -1
    /\ demoFile = join(result)

(***************************************************************************)
(* Vocabulary of the properties of sync                                    *)
(***************************************************************************)
stepDone(step) == \E i \in 1..Len(stepsDone) : stepsDone[i] = step

changedFiles ==
    {changes.added[i] : i \in 1..Len(changes.added)}
    \cup {changes.modified[i] : i \in 1..Len(changes.modified)}
    \cup {changes.deleted[i] : i \in 1..Len(changes.deleted)}

ignoredFile(file) == somePattern(config.ignore_patterns, file)

(***************************************************************************)
(* C21  Ignored files are never touched: once applyIgnorePatterns has run, *)
(* no file that some ignore pattern matches is in the added, modified or   *)
(* deleted list; no file operation runs before that, and copyFile,         *)
(* smartMergeFile and deleteFile are never invoked on such a file.         *)
(***************************************************************************)
C21_IgnoredUntouched ==
    /\ ~stepDone("applyIgnorePatterns") => invoked = <<>>
    /\ stepDone("applyIgnorePatterns") =>
           \A f \in changedFiles : ~ignoredFile(f)
    /\ \A i \in 1..Len(invoked) : ~ignoredFile(invoked[i].file)

\* one changed file was ignored, another one was processed
C21_Witness ==
    /\ exitCode = "0"
    /\ \E i \in 1..Len(syncLog) :
           syncLog[i].action = "ignored" /\ ignoredFile(syncLog[i].file)
    /\ invoked # <<>>

(***************************************************************************)
(* C22  Directory glob: a pattern dir/** matches every file under dir, at  *)
(* any depth, so that after applyIgnorePatterns no changed file under an   *)
(* ignored directory is left in the lists.                                 *)
(* The code breaks it: the second replacement rewrites the * of the .* the *)
(* first one produced, and files in subdirectories do not match.           *)
(***************************************************************************)
isDirGlob(pattern) ==
    /\ Len(pattern) > Len(<<"/", "*", "*">>)
    /\ SubSeq(pattern, Len(pattern) - 2, Len(pattern)) = <<"/", "*", "*">>
    /\ \A i \in 1..(Len(pattern) - 2) : pattern[i] \notin {"*", "?"}

\* the file lies under the directory of the pattern dir/**
under(file, pattern) ==
    /\ Len(file) > Len(pattern) - 2
    /\ SubSeq(file, 1, Len(pattern) - 2) = SubSeq(pattern, 1, Len(pattern) - 2)

C22_DirectoryGlob ==
    stepDone("applyIgnorePatterns") =>
        \A i \in 1..Len(config.ignore_patterns) :
            LET pattern == config.ignore_patterns[i] IN
            isDirGlob(pattern) =>
                \A j \in 1..Len(SyncFiles) :
                    under(SyncFiles[j], pattern) =>
                        /\ matchPattern(SyncFiles[j], pattern)
                        /\ SyncFiles[j] \notin changedFiles

(***************************************************************************)
(* C23  Pipeline ordering and outcome: the steps of sync complete in the   *)
(* order detectChanges, applyIgnorePatterns, analyzeChangesWithAI,         *)
(* applyChanges, validateSync, generatePRDescription, outputResults, each  *)
(* after the one before it; once a step has thrown no further step         *)
(* completes, sync-results.json is written with success false and a null   *)
(* description, and the exit code is 1; the exit code is 0 only with all   *)
(* seven steps completed.                                                  *)
(***************************************************************************)
stepIndex(step) == CHOOSE i \in 1..Len(Steps) : Steps[i] = step

Exited == pc \in {"exit", "fatal"}

PipelineOrder ==
    /\ stepsDone = SubSeq(Steps, 1, Len(stepsDone))
    /\ pc \in {Steps[i] : i \in 1..Len(Steps)} =>
           (stepIndex(pc) = Len(stepsDone) + 1 /\ thrown = NoStep /\ exitCode = Running)
    /\ thrown # NoStep => (pc \in {"catch", "exit", "fatal"}
                           /\ Len(stepsDone) = stepIndex(thrown) - 1)
    /\ Exited => exitCode = (IF thrown = NoStep THEN "0" ELSE "1")
    /\ exitCode = "0" => (stepsDone = Steps /\ thrown = NoStep)

failureWritten ==
    /\ resultsFile # Undefined
    /\ resultsFile.success = FALSE
    /\ resultsFile.prDescription = Null
    /\ resultsFile.error = thrown

C23_PipelineOriginal ==
    /\ PipelineOrder
    /\ (Exited /\ thrown # NoStep) => failureWritten

\* C23 as amended: the results are written unless the handler's own
\* outputResults throws at its first write; the exit code is 1 either way
C23_Pipeline ==
    /\ PipelineOrder
    /\ (pc = "exit" /\ thrown # NoStep) => failureWritten
    /\ pc = "fatal" => (thrown # NoStep /\ exitCode = "1")

\* applyChanges threw after its first call; the handler wrote the results
C23_Witness ==
    /\ pc = "exit"
    /\ thrown = "applyChanges"
    /\ Len(invoked) = 1
    /\ stepsDone = SubSeq(Steps, 1, stepIndex("applyChanges") - 1)
    /\ failureWritten
    /\ exitCode = "1"

(***************************************************************************)
(* C24  Per-file independence: the content written for a file and its      *)
(* warnings are the function intelligentMerge of that file's main text,    *)
(* demo text and the marker configuration, whatever merges of other files  *)
(* complete before, between the iterations of, or after its own merge; the *)
(* file's records in syncLog and changes carry exactly those warnings.     *)
(***************************************************************************)
ownLog == SelectSeq(syncLog, LAMBDA e : e.file = File)
ownConflicts == SelectSeq(changes.conflicts, LAMBDA e : e.file = File)
ownPreserved == SelectSeq(changes.preserved, LAMBDA e : e.file = File)

C24_Independence ==
    pc = "done" =>
        LET blocks == extractProtectedBlocks(demoContent) IN
        IF blocks = <<>>
        THEN /\ demoFile = mainFile
             /\ warnings = <<>>
             /\ Len(ownLog) = 1 /\ ownLog[1].action = "smart_merge_no_blocks"
             /\ ownConflicts = <<>> /\ ownPreserved = <<>>
        ELSE LET M == intelligentMerge(mainFile, demoContent, blocks) IN
             /\ demoFile = M.content
             /\ warnings = M.warnings
             /\ Len(ownLog) = 1
             /\ ownPreserved = << [file |-> File, blocks |-> Len(blocks)] >>
             /\ IF M.warnings = <<>>
                THEN ownLog[1].action = "smart_merge" /\ ownConflicts = <<>>
                ELSE /\ ownLog[1].action = "smart_merge_with_warnings"
                     /\ ownLog[1].warnings = M.warnings
                     /\ ownConflicts = << [file |-> File, warnings |-> M.warnings] >>

\* a merge with a warning, with other files' merges recorded before and after
C24_Witness ==
    /\ pc = "done"
    /\ warnings # <<>>
    /\ Len(protectedBlocks) = 2
    /\ Len(syncLog) = MaxOthers + 1
    /\ syncLog[1].file = OtherFile
    /\ syncLog[2].file = File
    /\ syncLog[3].file = OtherFile
    /\ syncLog[1].action = "smart_merge_with_warnings"

(***************************************************************************)
(* C25  Positional merge path: once the smartMergeFile of part_001 has     *)
(* written its merge, every protected block extracted from the demo file   *)
(* stands in the written content as a contiguous run of lines identical to *)
(* the block's lines, whatever marker regions main holds.                  *)
(* The code breaks it: a block is written only where main has a start      *)
(* marker line.                                                            *)
(***************************************************************************)
C25_PositionalPreserved ==
    (pc = "done" /\ Len(protectedBlocks) > 0) =>
        \A j \in 1..Len(protectedBlocks) :
            includes(split(demoFile), blockLinesOf(protectedBlocks[j]))

(***************************************************************************)
(* C26  SyncValidator.validateProtectedBlocks records no protected_block   *)
(* error exactly when the count of start-marker lines less end-marker      *)
(* lines is negative after no prefix of the document and zero after the    *)
(* whole of it.  An end-marker line met while the validator's count is     *)
(* zero yields exactly one error, at that line, and the count goes on from *)
(* zero: the errors are those, one each, and one more if the count is      *)
(* positive at the end.                                                    *)
(***************************************************************************)
FileChecked == pc = "checked"

\* start-marker lines less end-marker lines among the first n lines
rawCount(lines, n) ==
    Cardinality({i \in 0..(n - 1) : isStartLine(At(lines, i))})
        - Cardinality({i \in 0..(n - 1) : isEndLine(At(lines, i))})

\* the count that restarts from zero at an unmatched end marker, after n lines
RECURSIVE resetCount(_, _)
resetCount(lines, n) ==
    IF n = 0 THEN 0
    ELSE LET line == At(lines, n - 1)
             c == resetCount(lines, n - 1) + (IF isStartLine(line) THEN 1 ELSE 0)
         IN  IF isEndLine(line) THEN Max(c - 1, 0) ELSE c

\* the 0-indexed end-marker lines met at count zero
endsAtZero(lines) ==
    {i \in 0..(Len(lines) - 1) :
        /\ isEndLine(At(lines, i))
        /\ resetCount(lines, i) + (IF isStartLine(At(lines, i)) THEN 1 ELSE 0) = 0}

endErrors == SelectSeq(errors, LAMBDA e : Len(e.message) = 1)

C26_CountingValidator ==
    FileChecked =>
        LET lines == split(demoFile) IN
        /\ errors = <<>> <=>
               /\ \A n \in 0..Len(lines) : rawCount(lines, n) >= 0
               /\ rawCount(lines, Len(lines)) = 0
        /\ \A e \in 1..Len(errors) : errors[e].type = "protected_block"
        /\ Len(endErrors) = Cardinality(endsAtZero(lines))
        /\ \A i \in endsAtZero(lines) :
               Cardinality({e \in 1..Len(endErrors) : endErrors[e].line = i + 1}) = 1
        /\ Len(errors) = Len(endErrors)
                           + (IF resetCount(lines, Len(lines)) > 0 THEN 1 ELSE 0)

\* an unmatched end marker in line 1, then a well-formed block: one error
C26_Witness ==
    /\ FileChecked
    /\ Len(errors) = 1
    /\ errors[1].line = 1
    /\ Len(errors[1].message) = 1
    /\ \E i \in 1..(Len(split(demoFile)) - 1) :
          /\ isStartLine(At(split(demoFile), i))
          /\ \E j \in (i + 1)..(Len(split(demoFile)) - 1) :
                isEndLine(At(split(demoFile), j))

(***************************************************************************)
(* C27  Blank lines never match: when an iteration has found a span end    *)
(* for a non-empty after-context, the working-document line at the span    *)
(* end is not blank, and trimmed it equals, contains or is contained in    *)
(* the first after-context line.                                           *)
(* The code breaks it: with skipEmpty false a blank line is trimmed to the *)
(* empty string, which every context line includes.                        *)
(***************************************************************************)
C27_BlankNeverMatches ==
    (Iterated /\ replaceEnd # -1 /\ contextAfter # <<>>) =>
        LET line == trim(At(resultBefore, replaceEnd))
            ctx == At(contextAfter, 0)
        IN  /\ ~isBlank(At(resultBefore, replaceEnd))
            /\ (line = ctx \/ includes(line, ctx) \/ includes(ctx, line))

(***************************************************************************)
(* C28  Insertion point follows the matched context: when the iteration    *)
(* has found the before-context, the insertion point is the index behind   *)
(* the last working-document line matched against a before-context line,   *)
(* blank lines skipped during the match included, and the lines up to      *)
(* there stand unchanged in the document after the reinsertion.            *)
(* The code breaks it: the insertion point is the start of the match plus  *)
(* the number of context lines, whatever blank lines the match skipped.    *)
(***************************************************************************)
\* the index behind the n-th non-blank line at or after i
RECURSIVE afterNonBlank(_, _, _)
afterNonBlank(lines, i, n) ==
    IF n = 0 \/ i >= Len(lines) THEN i
    ELSE afterNonBlank(lines, i + 1, IF isBlank(At(lines, i)) THEN n ELSE n - 1)

\* where the match of the before-context that gave the insertion point starts
matchStart ==
    SetMin({i \in 0..(Len(resultBefore) - 1) :
               /\ matchesContext(resultBefore, i, contextBefore, TRUE)
               /\ i + Len(contextBefore) < Len(resultBefore)})

matchedEnd == afterNonBlank(resultBefore, matchStart, Len(contextBefore))

C28_InsertAfterMatch ==
    (Iterated /\ insertPosition # -1) =>
        /\ insertPosition = matchedEnd
        /\ Len(result) >= matchedEnd
        /\ Slice(result, 0, matchedEnd) = Slice(resultBefore, 0, matchedEnd)

(***************************************************************************)
(* C29  Empty before-context: an iteration whose sampled before-context is *)
(* empty finds the insertion point 0 and records no warning for its block; *)
(* if the after-context matches within the lookahead, first at e, the      *)
(* document becomes the block's lines followed by the lines from e on,     *)
(* and otherwise the block's lines followed by the whole document.         *)
(***************************************************************************)
C29_EmptyBeforeContext ==
    (Iterated /\ contextBefore = <<>>) =>
        /\ insertPosition = 0
        /\ \A w \in 1..Len(warnings) : warnings[w] # contextMissingWarning(lastBlock)
        /\ LET ends == AfterMatches(resultBefore, contextAfter, 0) IN
           IF ends # {}
           THEN /\ replaceEnd = SetMin(ends)
                /\ replaceEnd < LookAhead
                /\ result = demoBlockLines(lastBlock)
                               \o Slice(resultBefore, replaceEnd, Len(resultBefore))
           ELSE /\ replaceEnd = -1
                /\ result = demoBlockLines(lastBlock) \o resultBefore

\* a block at the top of the demo file replaces the first lines of main
C29_Witness ==
    /\ Iterated
    /\ contextBefore = <<>>
    /\ lastBlock.start = 0
    /\ contextAfter # <<>>
    /\ replaceEnd > 0
    /\ result = demoBlockLines(lastBlock)
                   \o Slice(resultBefore, replaceEnd, Len(resultBefore))

(***************************************************************************)
(* C30  Re-merge stability: when the first merge of a file wrote content   *)
(* M with no warning, the merge of the same main file into M writes M      *)
(* again, with no warning.                                                 *)
(* The code breaks it: in M the blocks' contexts are sampled anew, and a   *)
(* block whose before-context is empty is spliced over the blocks above.   *)
(***************************************************************************)
Remerged == pc = "done" /\ firstRun # Undefined

C30_RemergeStable ==
    (Remerged /\ firstRun.warnings = <<>>) =>
        /\ demoFile = firstRun.content
        /\ warnings = <<>>

====
